---- MODULE Spec2Model ----
(***************************************************************************)
(* CoverFlow (src/App.tsx): an in-browser transcoder that turns media      *)
(* files into MP3s carrying embedded cover artwork, one at a time or in a  *)
(* batch.  The module models                                               *)
(*   - normalize and matchedPairs, the filename matcher,                   *)
(*   - encodeMp3, the block loop that feeds the MP3 encoder,               *)
(*   - the component state and its handlers, with processTagger's runs     *)
(*     interleaved with user input at the runs' await points.              *)
(* Names are sequences of one-character strings, so that normalize is      *)
(* computed character by character as the regular expressions do.          *)
(***************************************************************************)
EXTENDS Integers, Sequences, FiniteSets, TLC

VARIABLES
    \* filename matcher, normalize alone
    nName, nKey, nAgain,
    \* component state (useState, lines 29-45)
    mode, mediaFile, imageFile,
    bulkAudioFiles, bulkImageFiles, manualAssignments,
    isProcessing, processStep, error, success,
    \* the pairing list computed by the matchedPairs memo, and computed again
    pairs, pairsAgain,
    \* encodeMp3: the decoded buffer, the position in the function, the loop
    \* variable i, the encoders created and the calls made on the encoder
    eBuf, ePc, eI, eEncoders, eCalls,
    \* the calls of processTagger: each slot holds one call, with the pairings
    \* it captured and how far each has come
    runs,
    \* clampToInt16 and the store into the Int16Array: the sample, the
    \* position, the scaled value and the array element
    qSample, qPc, qValue, qStored,
    \* link.download: the media name and the name given to the artifact
    lName, lDownload

normVars == <<nName, nKey, nAgain>>
fileVars == <<bulkAudioFiles, bulkImageFiles, manualAssignments>>
uiVars == <<mode, mediaFile, imageFile, isProcessing, processStep, error, success>>
matchVars == <<pairs, pairsAgain>>
encVars == <<eBuf, ePc, eI, eEncoders, eCalls>>
unitVars == <<qSample, qPc, qValue, qStored, lName, lDownload>>
vars == <<normVars, fileVars, uiVars, matchVars, encVars, runs, unitVars>>

\* null and undefined; a File is a reference, written as a string too
null == "null"
undefined == "undefined"
\* a key, or a pairing list, not computed yet
NoKey == <<"unset">>
NoPairs == <<[nil |-> "unset"]>>

----------------------------------------------------------------------------
(* Characters and strings *)

Uppers == <<"A","B","C","D","E","F","G","H","I","J","K","L","M",
            "N","O","P","Q","R","S","T","U","V","W","X","Y","Z">>
Lowers == <<"a","b","c","d","e","f","g","h","i","j","k","l","m",
            "n","o","p","q","r","s","t","u","v","w","x","y","z">>
Digits == {"0","1","2","3","4","5","6","7","8","9"}

Range(s) == {s[i] : i \in DOMAIN s}

UpperSet == Range(Uppers)
LowerSet == Range(Lowers)

\* the lower-case letter of each upper-case letter
LowerOf == [c \in UpperSet |-> Lowers[CHOOSE i \in DOMAIN Uppers : Uppers[i] = c]]

\* String.prototype.toLowerCase on one character
LowerChar(c) == IF c \in UpperSet THEN LowerOf[c] ELSE c

\* the lower-casing left out
toLowerCaseOmitted(s) == s

toLowerCase(s) == [i \in DOMAIN s |-> LowerChar(s[i])]

\* the character class [a-z0-9]
LowerAlnumSet == LowerSet \cup Digits

IsLowerAlnum(c) == c \in LowerAlnumSet

\* .replace(/[^a-z0-9]/g, ''): every character outside the class is removed
RECURSIVE StripNonAlnum(_)
StripNonAlnum(s) ==
    IF s = <<>> THEN <<>>
    ELSE (IF IsLowerAlnum(Head(s)) THEN <<Head(s)>> ELSE <<>>)
         \o StripNonAlnum(Tail(s))

\* the regular expression /\.[^/.]+$/ matches at position p: a '.', then one
\* or more characters that are neither '/' nor '.', up to the end
ExtMatchAt(s, p) ==
    /\ s[p] = "."
    /\ p < Len(s)
    /\ \A q \in (p + 1)..Len(s) : s[q] \notin {"/", "."}

\* everything from the first '.' on is removed
StripFromFirstDot(s) ==
    IF \E p \in DOMAIN s : s[p] = "."
    THEN SubSeq(s, 1, (CHOOSE p \in DOMAIN s :
                          s[p] = "." /\ \A q \in DOMAIN s : s[q] = "." => p <= q) - 1)
    ELSE s

\* .replace(/\.[^/.]+$/, ''): the leftmost match is removed, if there is one
StripExtension(s) ==
    IF \E p \in DOMAIN s : ExtMatchAt(s, p)
    THEN LET p == CHOOSE p \in DOMAIN s :
                      /\ ExtMatchAt(s, p)
                      /\ \A q \in DOMAIN s : ExtMatchAt(s, q) => p <= q
         IN SubSeq(s, 1, p - 1)
    ELSE s

IsSpace(c) == c \in {" "}

RECURSIVE TrimStart(_)
TrimStart(s) ==
    IF s # <<>> /\ IsSpace(Head(s)) THEN TrimStart(Tail(s)) ELSE s

RECURSIVE TrimEnd(_)
TrimEnd(s) ==
    IF s # <<>> /\ IsSpace(s[Len(s)]) THEN TrimEnd(SubSeq(s, 1, Len(s) - 1)) ELSE s

\* String.prototype.trim
trim(s) == TrimEnd(TrimStart(s))

\* normalize (lines 171-176)
normalize(name) == trim(StripNonAlnum(toLowerCase(StripExtension(name))))

----------------------------------------------------------------------------
(* normalize, applied to every name over a small alphabet *)

MaxNameLen == 4

NameChars == {"a", "A", "b", "1", " ", ".", "/"}

RECURSIVE SeqsUpTo(_, _)
SeqsUpTo(S, n) ==
    IF n = 0 THEN {<<>>}
    ELSE LET shorter == SeqsUpTo(S, n - 1)
         IN shorter \cup {Append(t, c) : t \in {u \in shorter : Len(u) = n - 1}, c \in S}

Names == SeqsUpTo(NameChars, MaxNameLen)

NormIdle == nName = <<>> /\ nKey = NoKey /\ nAgain = NoKey

\* clampToInt16 and the download link not in use
UnitIdle ==
    /\ qSample = [kind |-> "num", num |-> 0] /\ qPc = "idle"
    /\ qValue = [kind |-> "num", num |-> 0] /\ qStored = 0
    /\ lName = <<>> /\ lDownload = NoKey

\* audioClean = normalize(audio.name) (line 181)
NormalizeName ==
    /\ nKey = NoKey
    /\ nKey' = normalize(nName)
    /\ UNCHANGED <<nName, nAgain, fileVars, uiVars, matchVars, encVars, runs, unitVars>>

\* normalize applied to its own result
NormalizeAgain ==
    /\ nKey # NoKey
    /\ nAgain = NoKey
    /\ nAgain' = normalize(nKey)
    /\ UNCHANGED <<nName, nKey, fileVars, uiVars, matchVars, encVars, runs, unitVars>>

----------------------------------------------------------------------------
(* Files and the filename matcher *)

\* the content types of the files
AudioMpeg == <<"a","u","d","i","o","/","m","p","e","g">>
AudioWav == <<"a","u","d","i","o","/","w","a","v">>
VideoMp4 == <<"v","i","d","e","o","/","m","p","4">>
ImagePng == <<"i","m","a","g","e","/","p","n","g">>
ImageJpeg == <<"i","m","a","g","e","/","j","p","e","g">>
ImageWebp == <<"i","m","a","g","e","/","w","e","b","p">>
TextPlain == <<"t","e","x","t","/","p","l","a","i","n">>

TrackOneMp3Name == <<"T","r","a","c","k"," ","O","n","e",".","m","p","3">>
TrackonePngName == <<"t","r","a","c","k","o","n","e",".","p","n","g">>
ConstructorName == <<"c","o","n","s","t","r","u","c","t","o","r">>

\* the File objects of the model, each a reference
TrackOneMp3 == "File Track One.mp3"
AWav == "File a.wav"
ConstructorAudio == "File constructor"
TrackonePng == "File trackone.png"
TrackOneJpg == "File Track-One.jpg"
BJpg == "File b.jpg"
APng == "File A.png"
CoverWebp == "File cover.webp"
XMp3 == "File x.mp3"
XPng == "File X.png"
YWav == "File y.wav"
ClipMp4 == "File c.mp4"
NotesTxt == "File n.txt"

FileData(name, type) == [name |-> name, type |-> type]

\* the name and the declared content type of each File
FileTable ==
    (TrackOneMp3 :> FileData(TrackOneMp3Name, AudioMpeg))
    @@ (AWav :> FileData(<<"a",".","w","a","v">>, AudioWav))
    @@ (ConstructorAudio :> FileData(ConstructorName, AudioMpeg))
    @@ (TrackonePng :> FileData(TrackonePngName, ImagePng))
    @@ (TrackOneJpg :>
           FileData(<<"T","r","a","c","k","-","O","n","e",".","j","p","g">>, ImageJpeg))
    @@ (BJpg :> FileData(<<"b",".","j","p","g">>, ImageJpeg))
    @@ (APng :> FileData(<<"A",".","p","n","g">>, ImagePng))
    @@ (CoverWebp :> FileData(<<"c","o","v","e","r",".","w","e","b","p">>, ImageWebp))
    @@ (XMp3 :> FileData(<<"x",".","m","p","3">>, AudioMpeg))
    @@ (XPng :> FileData(<<"X",".","p","n","g">>, ImagePng))
    @@ (YWav :> FileData(<<"y",".","w","a","v">>, AudioWav))
    @@ (ClipMp4 :> FileData(<<"c",".","m","p","4">>, VideoMp4))
    @@ (NotesTxt :> FileData(<<"n",".","t","x","t">>, TextPlain))

\* a File object: it has a name, a type and arrayBuffer()
IsFile(v) == v \in DOMAIN FileTable

\* file.name and file.type
Name(f) == FileTable[f].name
Type(f) == FileTable[f].type

\* property names every object literal inherits from Object.prototype
ObjectPrototypeKeys ==
    { ConstructorName,
      <<"v","a","l","u","e","O","f">> }

\* a member of Object.prototype, which is a function and no File
InheritedMember == "Object.prototype member"

\* obj[key] on an object created by the literal {} (line 39): an own
\* property, else a member inherited from Object.prototype, else undefined
JsGet(obj, key) ==
    IF key \in DOMAIN obj THEN obj[key]
    ELSE IF key \in ObjectPrototypeKeys THEN InheritedMember
    ELSE undefined

Truthy(v) == v \notin {undefined, null}

\* a || null
OrNull(v) == IF Truthy(v) THEN v ELSE null

\* normalize(file.name), tabulated for the Files of the model
NormalizedNames == [f \in DOMAIN FileTable |-> normalize(Name(f))]

NormalizedName(f) == NormalizedNames[f]

\* bulkImageFiles.find((img) => normalize(img.name) === audioClean) (line 182)
FindImage(images, audioClean) ==
    IF \E k \in DOMAIN images : NormalizedName(images[k]) = audioClean
    THEN images[CHOOSE k \in DOMAIN images :
                   /\ NormalizedName(images[k]) = audioClean
                   /\ \A j \in DOMAIN images :
                          NormalizedName(images[j]) = audioClean => k <= j]
    ELSE undefined

\* the automatic match tried first, the override only when there is none
MatchedImageAutoFirst(audio, images, assign) ==
    LET auto == OrNull(FindImage(images, NormalizedName(audio)))
    IN IF ~Truthy(auto) THEN OrNull(JsGet(assign, Name(audio))) ELSE auto

\* let matchedImage = manualAssignments[audio.name] || null, then the
\* automatic match when that is falsy (lines 179-183)
MatchedImage(audio, images, assign) ==
    LET manual == OrNull(JsGet(assign, Name(audio)))
    IN IF ~Truthy(manual)
       THEN OrNull(FindImage(images, NormalizedName(audio)))
       ELSE manual

\* the body of the matchedPairs memo (lines 169-192); index is 0-based
MatchedPairsOf(audios, images, assign) ==
    [i \in DOMAIN audios |->
        LET matchedImage == MatchedImage(audios[i], images, assign)
        IN [id |-> <<Name(audios[i]), i - 1>>,
            audio |-> audios[i],
            image |-> matchedImage,
            status |-> IF Truthy(matchedImage) THEN "matched" ELSE "missing-image"]]

matchedPairs == MatchedPairsOf(bulkAudioFiles, bulkImageFiles, manualAssignments)

----------------------------------------------------------------------------
(* The initial component state (lines 29-45) *)

NoError == "(null)"

UiInit ==
    /\ mode = "single"
    /\ mediaFile = null
    /\ imageFile = null
    /\ isProcessing = FALSE
    /\ processStep = ""
    /\ error = NoError
    /\ success = FALSE

FilesInit ==
    /\ bulkAudioFiles = <<>>
    /\ bulkImageFiles = <<>>
    /\ manualAssignments = <<>>

MatchIdle == pairs = NoPairs /\ pairsAgain = NoPairs

\* the calls of processTagger that may be in progress at once
MaxRuns == 2
RunSlots == 1..MaxRuns

\* a slot processTagger was not called in
NoRun ==
    [pc |-> "none", mode |-> "single", queue |-> <<>>, items |-> <<>>,
     itemPc |-> <<>>, ctx |-> <<>>, delivered |-> <<>>, errorSets |-> 0]

RunsIdle == runs = [r \in RunSlots |-> NoRun]

NoBuffer == [numberOfChannels |-> 0, sampleRate |-> 0, length |-> 0]

EncIdle ==
    /\ eBuf = NoBuffer
    /\ ePc = "idle"
    /\ eI = 0
    /\ eEncoders = <<>>
    /\ eCalls = <<>>

----------------------------------------------------------------------------
(* normalize as a function of the name alone *)

InitNormalize ==
    /\ nName \in Names
    /\ nKey = NoKey
    /\ nAgain = NoKey
    /\ UiInit /\ FilesInit /\ MatchIdle /\ EncIdle /\ RunsIdle /\ UnitIdle

NextNormalize == NormalizeName \/ NormalizeAgain

SpecNormalize == InitNormalize /\ [][NextNormalize]_vars

\* the name as the specification splits it: the base name is the text before
\* the last '.', the final extension the text after it
LastDot(s) ==
    IF \E p \in DOMAIN s : s[p] = "."
    THEN CHOOSE p \in DOMAIN s : s[p] = "." /\ \A q \in DOMAIN s : s[q] = "." => q <= p
    ELSE 0

BaseName(s) == IF LastDot(s) = 0 THEN s ELSE SubSeq(s, 1, LastDot(s) - 1)

\* the last '.' and the text after it; empty when the name has no '.'
ExtPart(s) == IF LastDot(s) = 0 THEN <<>> ELSE SubSeq(s, LastDot(s), Len(s))

UpperChar(c) ==
    IF c \in LowerSet
    THEN Uppers[CHOOSE i \in DOMAIN Lowers : Lowers[i] = c]
    ELSE c

\* the names that differ from s in letter case only
RECURSIVE CaseVariants(_)
CaseVariants(s) ==
    IF s = <<>> THEN {<<>>}
    ELSE {<<c>> \o t : c \in {LowerChar(Head(s)), UpperChar(Head(s))},
                       t \in CaseVariants(Tail(s))}

IsPunctuation(c) == c \notin LowerSet \cup UpperSet \cup Digits

\* the names that differ from s by one more punctuation character in the
\* base name, the final extension being the same
PunctVariants(s) ==
    LET base == BaseName(s)
        made == {SubSeq(base, 1, k) \o <<c>> \o SubSeq(base, k + 1, Len(base)) \o ExtPart(s) :
                     k \in 0..Len(base), c \in {d \in NameChars : IsPunctuation(d)}}
    IN {y \in made : ExtPart(y) = ExtPart(s)}

\* the names with the base name of s and another final extension, or none
ExtVariants(s) ==
    LET exts == SeqsUpTo(NameChars \ {"."}, 2)
        made == {BaseName(s)} \cup {BaseName(s) \o <<".">> \o e : e \in exts}
    IN {y \in made : BaseName(y) = BaseName(s)}

SongMP3 == <<"S","o","n","g",".","M","P","3">>
songmp3 == <<"s","o","n","g",".","m","p","3">>
SONG == <<"S","O","N","G">>

\* normalize(normalize(x)) = normalize(x)
NormalizeIdempotent == nAgain # NoKey => nAgain = nKey

\* names that differ only in letter case normalize alike
NormalizeCaseInsensitive ==
    nKey # NoKey => \A y \in CaseVariants(nName) : normalize(y) = nKey

\* names that differ only in punctuation of the base name normalize alike
NormalizePunctInsensitive ==
    nKey # NoKey => \A y \in PunctVariants(nName) : normalize(y) = nKey

\* names that differ only in their final extension normalize alike
NormalizeExtInsensitive ==
    nKey # NoKey => \A y \in ExtVariants(nName) : normalize(y) = nKey

NormalizeExamples ==
    /\ normalize(SongMP3) = normalize(songmp3)
    /\ normalize(songmp3) = normalize(SONG)
    /\ normalize(TrackOneMp3Name) = normalize(TrackonePngName)

\* C8, as stated: normalize is idempotent, and two names that differ only in
\* letter case, in punctuation of the base name or in their final extension
\* (the text after the last '.') have the same normalized name.
C8_Original ==
    /\ NormalizeIdempotent
    /\ NormalizeCaseInsensitive
    /\ NormalizePunctInsensitive
    /\ NormalizeExtInsensitive
    /\ NormalizeExamples

SlashInExt(s) == "/" \in Range(ExtPart(s))

\* names that differ only in a final extension without '/' normalize alike
NormalizeExtInsensitiveNoSlash ==
    nKey # NoKey =>
        \A y \in ExtVariants(nName) :
            ~SlashInExt(nName) /\ ~SlashInExt(y) => normalize(y) = nKey

\* C8, amended: normalize is idempotent, and two names that differ only in
\* letter case, in punctuation of the base name, or in a final extension
\* that holds no '/' have the same normalized name.
C8_NormalizeIdempotentInsensitive ==
    /\ NormalizeIdempotent
    /\ NormalizeCaseInsensitive
    /\ NormalizePunctInsensitive
    /\ NormalizeExtInsensitiveNoSlash
    /\ NormalizeExamples

\* normalize applied twice to a name with an upper-case letter, punctuation
\* and a final extension, which has a variant with another extension
C8_Witness ==
    /\ nAgain # NoKey
    /\ nKey # <<>>
    /\ ExtPart(nName) # <<>> /\ ~SlashInExt(nName)
    /\ \E i \in DOMAIN nName : nName[i] \in Range(Uppers)
    /\ \E i \in DOMAIN BaseName(nName) : IsPunctuation(nName[i])
    /\ \E y \in ExtVariants(nName) : y # nName /\ ~SlashInExt(y) /\ ExtPart(y) # <<>>


\* the characters of s inside [a-z0-9], in their order
OnlyLowerAlnum(s) == SelectSeq(s, LAMBDA c : c \in LowerSet \cup Digits)

\* the reference of the claim: the last '.' and all text after it removed,
\* the rest lowercased, every character outside [a-z0-9] deleted
ReferenceKey(name) ==
    OnlyLowerAlnum([i \in DOMAIN BaseName(name) |-> LowerChar(BaseName(name)[i])])

\* the reference, with the final extension removed only if it holds no '/'
ReferenceKeyNoSlash(name) ==
    IF SlashInExt(name)
    THEN OnlyLowerAlnum([i \in DOMAIN name |-> LowerChar(name[i])])
    ELSE ReferenceKey(name)

\* C15: normalize(name) is the reference for every name, also with several
\* dots, a leading or trailing dot, and '/' or punctuation after the last dot.
C15_Original == nKey # NoKey => nKey = ReferenceKey(nName)

\* C15, amended: normalize(name) is the name with its final extension
\* removed unless a '/' follows the last '.', lowercased, every character
\* outside [a-z0-9] deleted.
C15_NormalizeIsReference == nKey # NoKey => nKey = ReferenceKeyNoSlash(nName)

\* normalize applied to a name with two dots, and to one with '/' after its
\* last dot
C15_Witness ==
    /\ nKey # NoKey
    /\ \/ nName = <<"a", ".", "b", ".">>
       \/ nName = <<"A", ".", "/", "b">> /\ nKey = <<"a", "b">>

----------------------------------------------------------------------------
(* matchedPairs as a function of the two lists and the override map *)

MaxList == 2

MatchAudioPool == {TrackOneMp3, AWav, ConstructorAudio}
MatchImagePool == {TrackonePng, TrackOneJpg, BJpg, APng}

\* the override maps a caller may supply: none, or one audio name with the
\* artwork chosen for it
OverrideMaps ==
    {<<>>} \cup {Name(a) :> img : a \in MatchAudioPool,
                                 img \in MatchImagePool \cup {CoverWebp}}

InitMatch ==
    /\ bulkAudioFiles \in SeqsUpTo(MatchAudioPool, MaxList)
    /\ bulkImageFiles \in SeqsUpTo(MatchImagePool, MaxList)
    /\ manualAssignments \in OverrideMaps
    /\ MatchIdle
    /\ UiInit /\ NormIdle /\ UnitIdle /\ EncIdle /\ RunsIdle

\* the memo runs for the current lists and map
Rematch ==
    /\ pairs = NoPairs
    /\ pairs' = matchedPairs
    /\ UNCHANGED <<pairsAgain, normVars, unitVars, fileVars, uiVars, encVars, runs>>

\* the memo runs once more for the same lists and map
RematchAgain ==
    /\ pairs # NoPairs
    /\ pairsAgain = NoPairs
    /\ pairsAgain' = matchedPairs
    /\ UNCHANGED <<pairs, normVars, unitVars, fileVars, uiVars, encVars, runs>>

NextMatch == Rematch \/ RematchAgain

SpecMatch == InitMatch /\ [][NextMatch]_vars

\* the images of the list whose normalized name equals the audio item's
Hits(audio) ==
    {k \in DOMAIN bulkImageFiles :
        NormalizedName(bulkImageFiles[k]) = NormalizedName(audio)}

Least(S) == CHOOSE k \in S : \A j \in S : k <= j

\* C6: an audio item whose name has an entry in the override map is paired
\* with exactly the overridden artwork, status matched, whether or not an
\* artwork of the list has an equal normalized name.
C6_OverrideWins ==
    pairs # NoPairs =>
        \A i \in DOMAIN pairs :
            Name(pairs[i].audio) \in DOMAIN manualAssignments =>
                /\ pairs[i].image = manualAssignments[Name(pairs[i].audio)]
                /\ pairs[i].status = "matched"

\* an overridden audio item for which the list also holds an automatic match
\* that is another artwork
C6_Witness ==
    /\ pairs # NoPairs
    /\ \E i \in DOMAIN pairs :
        /\ Name(pairs[i].audio) \in DOMAIN manualAssignments
        /\ Hits(pairs[i].audio) # {}
        /\ bulkImageFiles[Least(Hits(pairs[i].audio))]
               # manualAssignments[Name(pairs[i].audio)]
        /\ pairs[i].image = manualAssignments[Name(pairs[i].audio)]

\* C7: an audio item without an override is paired with the first artwork of
\* the list whose normalized name equals its own, and is missing-image with
\* no artwork exactly when the list holds no such artwork.
C7_FirstNormalizedMatch ==
    pairs # NoPairs =>
        \A i \in DOMAIN pairs :
            Name(pairs[i].audio) \notin DOMAIN manualAssignments =>
                IF Hits(pairs[i].audio) # {}
                THEN /\ pairs[i].image = bulkImageFiles[Least(Hits(pairs[i].audio))]
                     /\ pairs[i].status = "matched"
                ELSE /\ pairs[i].image = null
                     /\ pairs[i].status = "missing-image"

\* the artwork items a pairing can carry: those of the list and of the map
ArtworkItems ==
    Range(bulkImageFiles) \cup {manualAssignments[n] : n \in DOMAIN manualAssignments}

\* C9: the pairing list holds one pairing per audio item, in the order of the
\* audio list; a pairing is matched exactly when it carries an artwork item;
\* computing the list again from the same inputs gives the same list.
C9_PureProjection ==
    pairs # NoPairs =>
        /\ Len(pairs) = Len(bulkAudioFiles)
        /\ \A i \in DOMAIN pairs :
            /\ pairs[i].audio = bulkAudioFiles[i]
            /\ pairs[i].status \in {"matched", "missing-image"}
            /\ pairs[i].status = "matched" <=> pairs[i].image \in ArtworkItems
            /\ pairs[i].status = "missing-image" <=> pairs[i].image = null
        /\ pairsAgain # NoPairs => pairsAgain = pairs

----------------------------------------------------------------------------
(* encodeMp3 (lines 57-99) *)

MaxSamples == 2400

blockSize == 1152
kbps == 192
\* the loop yields to the scheduler when i is a multiple of blockSize * 20
yieldBlocks == 20

Min(a, b) == IF a < b THEN a ELSE b

\* the channel counts and sample rates of the decoded buffers
ChannelCounts == {1, 2, 6}
SampleRates == {44100, 48000}

AudioBuffers ==
    [numberOfChannels : ChannelCounts, sampleRate : SampleRates, length : 0..MaxSamples]

\* the channel count of the buffer taken as it is
ChannelsUncapped(buf) == buf.numberOfChannels

\* const channels = Math.min(audioBuffer.numberOfChannels, 2) (line 58)
Channels(buf) == Min(buf.numberOfChannels, 2)

\* the channel whose data is the right input (line 72): channel 1, or the
\* left array itself when the encoder is mono
RightChannel(buf) == IF Channels(buf) > 1 THEN 1 ELSE 0

\* every full-size block, the remainder forgotten
ChunkLengthFull(len, i) == blockSize

\* Math.min(blockSize, left.length - i) (line 75)
ChunkLength(len, i) == Min(blockSize, len - i)

\* an Int16Array filled by the inner loop (lines 75-81): the quantized
\* samples from..from+len-1 of one channel of the buffer
Chunk(chan, from, len) == [chan |-> chan, from |-> from, len |-> len]

\* new Mp3Encoder(channels, sampleRate, kbps) and i = 0 (lines 58-74)
EncodeStart ==
    /\ ePc = "start"
    /\ eEncoders' = Append(eEncoders,
                       [channels |-> Channels(eBuf),
                        sampleRate |-> eBuf.sampleRate,
                        kbps |-> kbps])
    /\ eI' = 0
    /\ ePc' = "loop"
    /\ UNCHANGED <<eBuf, eCalls, normVars, unitVars, fileVars, uiVars, matchVars, runs>>

\* one iteration of the block loop (lines 74-90): the two chunks are filled
\* and handed to encodeBuffer; the loop then yields, or goes on
EncodeBlock ==
    /\ ePc = "loop"
    /\ eI < eBuf.length
    /\ LET n == ChunkLength(eBuf.length, eI)
       IN eCalls' = Append(eCalls,
                       [op |-> "encodeBuffer",
                        encoder |-> Len(eEncoders),
                        left |-> Chunk(0, eI, n),
                        right |-> Chunk(RightChannel(eBuf), eI, n)])
    /\ IF eI % (blockSize * yieldBlocks) = 0
       THEN ePc' = "yield" /\ eI' = eI
       ELSE ePc' = "loop" /\ eI' = eI + blockSize
    /\ UNCHANGED <<eBuf, eEncoders, normVars, unitVars, fileVars, uiVars, matchVars, runs>>

\* the timeout of line 89 fires and the loop goes on with i += blockSize
EncodeResume ==
    /\ ePc = "yield"
    /\ eI' = eI + blockSize
    /\ ePc' = "loop"
    /\ UNCHANGED <<eBuf, eEncoders, eCalls, normVars, unitVars, fileVars, uiVars, matchVars, runs>>

\* encoder.flush() after the loop (lines 93-98)
EncodeFlush ==
    /\ ePc = "loop"
    /\ ~(eI < eBuf.length)
    /\ eCalls' = Append(eCalls,
                    [op |-> "flush",
                     encoder |-> Len(eEncoders),
                     left |-> Chunk(0, 0, 0),
                     right |-> Chunk(0, 0, 0)])
    /\ ePc' = "done"
    /\ UNCHANGED <<eBuf, eI, eEncoders, normVars, unitVars, fileVars, uiVars, matchVars, runs>>

InitEncode ==
    /\ eBuf \in AudioBuffers
    /\ ePc = "start"
    /\ eI = 0
    /\ eEncoders = <<>>
    /\ eCalls = <<>>
    /\ UiInit /\ FilesInit /\ MatchIdle /\ NormIdle /\ UnitIdle /\ RunsIdle

NextEncode == EncodeStart \/ EncodeBlock \/ EncodeResume \/ EncodeFlush

SpecEncode == InitEncode /\ [][NextEncode]_vars

\* the blocks handed to the encoder so far, in call order
Blocks == SelectSeq(eCalls, LAMBDA c : c.op = "encodeBuffer")

\* ceil(L / 1152)
BlockCount(L) == (L + blockSize - 1) \div blockSize

\* the size the claim gives block k of an input of L samples
BlockSizeOf(L, k) ==
    IF k < BlockCount(L) THEN blockSize
    ELSE IF L % blockSize = 0 THEN blockSize ELSE L % blockSize

\* C10: for an input of L samples the encoder is given ceil(L/1152) blocks in
\* sample order, all of 1152 samples but the last, which has L mod 1152
\* samples (1152 when L is a multiple of 1152); with one channel the left and
\* the right block of every call are the same.
C10_BlockSizes ==
    /\ Len(Blocks) <= BlockCount(eBuf.length)
    /\ ePc = "done" => Len(Blocks) = BlockCount(eBuf.length)
    /\ \A k \in DOMAIN Blocks :
        /\ Blocks[k].left.len = BlockSizeOf(eBuf.length, k)
        /\ Blocks[k].right.len = Blocks[k].left.len
        /\ Blocks[k].left.chan = 0
        /\ Blocks[k].left.from = (k - 1) * blockSize
        /\ Blocks[k].right.from = Blocks[k].left.from
        /\ eBuf.numberOfChannels = 1 => Blocks[k].right = Blocks[k].left

\* 2400 mono samples encoded to the end: blocks of 1152, 1152 and 96 samples,
\* left and right the same
C10_Witness ==
    /\ ePc = "done"
    /\ eBuf.numberOfChannels = 1
    /\ eBuf.length = 2400
    /\ Len(Blocks) = 3
    /\ Blocks[1].left.len = 1152 /\ Blocks[2].left.len = 1152 /\ Blocks[3].left.len = 96
    /\ \A k \in 1..3 : Blocks[k].right = Blocks[k].left

\* the positions of the flush calls among the calls made
Flushes == {k \in DOMAIN eCalls : eCalls[k].op = "flush"}

\* C17: one encoder is created per stream, with one or two channels, the
\* buffer's sample rate and 192 kbps; every call is made on it; flush is
\* called once, after the last block, also for an input of no samples, and
\* no block follows it.
C17_EncoderProtocol ==
    /\ Len(eEncoders) = (IF ePc = "start" THEN 0 ELSE 1)
    /\ \A e \in DOMAIN eEncoders :
        /\ eEncoders[e].channels \in {1, 2}
        /\ eEncoders[e].channels <= eBuf.numberOfChannels
        /\ eEncoders[e].sampleRate = eBuf.sampleRate
        /\ eEncoders[e].kbps = 192
    /\ \A k \in DOMAIN eCalls : eCalls[k].encoder = 1
    /\ Cardinality(Flushes) = (IF ePc = "done" THEN 1 ELSE 0)
    /\ \A k \in Flushes : k = Len(eCalls) /\ Len(Blocks) = BlockCount(eBuf.length)

\* an input of no samples encoded to the end: one encoder, one call, the flush
C17_Witness ==
    /\ ePc = "done"
    /\ eBuf.length = 0
    /\ Len(eEncoders) = 1
    /\ Len(eCalls) = 1 /\ eCalls[1].op = "flush"

----------------------------------------------------------------------------
(* The component: its handlers and the runs of processTagger *)

MaxQueue == 3

StartsWith(s, prefix) ==
    Len(s) >= Len(prefix) /\ SubSeq(s, 1, Len(prefix)) = prefix

EndsWith(s, suffix) ==
    Len(s) >= Len(suffix) /\ SubSeq(s, Len(s) - Len(suffix) + 1, Len(s)) = suffix

MediaExtensions ==
    { <<"m","p","3">>, <<"m","p","4">>, <<"m","o","v">>, <<"w","a","v">>,
      <<"m","4","a">>, <<"w","e","b","m">>, <<"a","a","c">> }
ImageExtensions ==
    { <<"j","p","g">>, <<"j","p","e","g">>, <<"p","n","g">>, <<"w","e","b","p">> }

\* /\.(ext|...)$/i.test(name)
HasExtension(name, exts) ==
    LET lower == toLowerCase(name)
    IN \E e \in exts : EndsWith(lower, <<".">> \o e)

\* the media check of handleMediaChange and addFilesToBulk (lines 125-128, 152-157)
MediaCheck(f) ==
    \/ StartsWith(Type(f), <<"a","u","d","i","o","/">>)
    \/ StartsWith(Type(f), <<"v","i","d","e","o","/">>)
    \/ HasExtension(Name(f), MediaExtensions)

\* the artwork check of handleImageChange and addFilesToBulk (lines 141, 158-160)
ImageCheck(f) ==
    \/ StartsWith(Type(f), <<"i","m","a","g","e","/">>)
    \/ HasExtension(Name(f), ImageExtensions)

\* the two checks, tabulated for the Files of the model
MediaChecks == [f \in DOMAIN FileTable |-> MediaCheck(f)]
ImageChecks == [f \in DOMAIN FileTable |-> ImageCheck(f)]

IsMedia(f) == MediaChecks[f]
IsImage(f) == ImageChecks[f]

\* what the single pickers may hand over
PickedFiles == {ClipMp4, XPng, NotesTxt}

\* what the bulk picker may hand over in one change event
Batches == { <<XMp3, XPng>>, <<YWav>>, <<NotesTxt>> }

MediaError == "Please select a supported audio or video file."
BothError == "Select both a media file and artwork."
NoTracksError == "No matched tracks to process."
\* err.message of a failed stage
StageError == "An unexpected error occurred during transcoding."

ExtractingStep == "Extracting Audio..."
TranscodingStep == "Transcoding to MP3..."
EmbeddingStep == "Embedding Artwork..."

Running(r) == runs[r].pc = "running"

\* a rejected file also ends the processing in progress
HandleMediaChangeAborts(file) ==
    /\ mode = "single"
    /\ IF IsMedia(file)
       THEN /\ mediaFile' = file
            /\ error' = NoError
            /\ success' = FALSE
            /\ UNCHANGED <<isProcessing, processStep, runs>>
       ELSE /\ error' = MediaError
            /\ isProcessing' = FALSE
            /\ processStep' = ""
            /\ runs' = [r \in RunSlots |->
                           IF Running(r) THEN [runs[r] EXCEPT !.pc = "aborted"]
                           ELSE runs[r]]
            /\ UNCHANGED <<mediaFile, success>>
    /\ UNCHANGED <<imageFile, mode, fileVars, normVars, unitVars, matchVars, encVars>>

\* handleMediaChange (lines 122-137); the input is rendered in single mode
HandleMediaChange(file) ==
    /\ mode = "single"
    /\ IF IsMedia(file)
       THEN /\ mediaFile' = file
            /\ error' = NoError
            /\ success' = FALSE
       ELSE /\ error' = MediaError
            /\ UNCHANGED <<mediaFile, success>>
    /\ UNCHANGED <<imageFile, mode, isProcessing, processStep,
                   fileVars, runs, normVars, unitVars, matchVars, encVars>>

\* handleImageChange (lines 139-149); a file that is no image is ignored
HandleImageChange(file) ==
    /\ mode = "single"
    /\ IF IsImage(file)
       THEN /\ imageFile' = file
            /\ error' = NoError
            /\ success' = FALSE
       ELSE UNCHANGED <<imageFile, error, success>>
    /\ UNCHANGED <<mediaFile, mode, isProcessing, processStep,
                   fileVars, runs, normVars, unitVars, matchVars, encVars>>

\* addFilesToBulk (lines 151-167); the input is rendered in bulk mode
AddFilesToBulk(files) ==
    LET audios == SelectSeq(files, IsMedia)
        images == SelectSeq(files, IsImage)
    IN /\ mode = "bulk"
       /\ Len(bulkAudioFiles) + Len(audios) <= MaxQueue
       /\ Len(bulkImageFiles) + Len(images) <= MaxQueue
       /\ bulkAudioFiles' = bulkAudioFiles \o audios
       /\ bulkImageFiles' = bulkImageFiles \o images
       /\ error' = NoError
       /\ success' = FALSE
       /\ UNCHANGED <<manualAssignments, mode, mediaFile, imageFile, isProcessing,
                      processStep, runs, normVars, unitVars, matchVars, encVars>>

\* only the entry clicked is removed
RemoveThatEntry(p) ==
    /\ mode = "bulk"
    /\ bulkAudioFiles' = [i \in 1..(Len(bulkAudioFiles) - 1) |->
                              IF i < p.id[2] + 1 THEN bulkAudioFiles[i]
                              ELSE bulkAudioFiles[i + 1]]
    /\ UNCHANGED <<bulkImageFiles, manualAssignments, uiVars, runs,
                   normVars, unitVars, matchVars, encVars>>

\* the remove button of a queue entry (lines 469-472)
RemoveFromQueue(p) ==
    /\ mode = "bulk"
    /\ bulkAudioFiles' = SelectSeq(bulkAudioFiles, LAMBDA f : Name(f) # Name(p.audio))
    /\ UNCHANGED <<bulkImageFiles, manualAssignments, uiVars, runs,
                   normVars, unitVars, matchVars, encVars>>

\* the mode buttons (lines 268-285)
SetMode(m) ==
    /\ mode' = m
    /\ success' = FALSE
    /\ UNCHANGED <<mediaFile, imageFile, isProcessing, processStep, error,
                   fileVars, runs, normVars, unitVars, matchVars, encVars>>

\* the Reset Engine button (lines 501-516), rendered while nothing is processed
ResetEngine ==
    /\ (mediaFile # null \/ Len(bulkAudioFiles) > 0) /\ ~isProcessing
    /\ mediaFile' = null
    /\ imageFile' = null
    /\ bulkAudioFiles' = <<>>
    /\ bulkImageFiles' = <<>>
    /\ manualAssignments' = <<>>
    /\ UNCHANGED <<mode, isProcessing, processStep, error, success, runs,
                   normVars, unitVars, matchVars, encVars>>

\* the pairing list taken whole, unfiltered
ToProcessUnfiltered == matchedPairs

\* matchedPairs.filter((p) => p.image) (line 228)
ToProcess == SelectSeq(matchedPairs, LAMBDA p : Truthy(p.image))

\* the start buttons with the isProcessing test left out
StartEnabledUnguarded ==
    IF mode = "single"
    THEN ~(mediaFile = null \/ imageFile = null)
    ELSE Len(bulkAudioFiles) > 0 /\ ~(~\E i \in DOMAIN matchedPairs : Truthy(matchedPairs[i].image))

\* the start button of the mode shown is rendered and not disabled
\* (lines 372-375, 403, 480-483)
StartEnabled ==
    IF mode = "single"
    THEN ~(isProcessing \/ mediaFile = null \/ imageFile = null)
    ELSE /\ Len(bulkAudioFiles) > 0
         /\ ~(isProcessing \/ ~\E i \in DOMAIN matchedPairs : Truthy(matchedPairs[i].image))

\* the conditions under which processTagger throws before it processes
\* anything (lines 224, 229)
StartThrows ==
    IF mode = "single"
    THEN mediaFile = null \/ imageFile = null
    ELSE Len(ToProcess) = 0

\* the throw caught without a message set
StartErrorLost == NoError

StartError == IF mode = "single" THEN BothError ELSE NoTracksError

\* what the call is going to process: (mediaFile, imageFile), or the
\* pairings of toProcess in their order (lines 225, 228-233)
RunItems ==
    IF mode = "single"
    THEN <<[media |-> mediaFile, artwork |-> imageFile, id |-> <<Name(mediaFile), 0>>]>>
    ELSE [i \in DOMAIN ToProcess |->
             [media |-> ToProcess[i].audio,
              artwork |-> ToProcess[i].image,
              id |-> ToProcess[i].id]]

\* the pairing list the call looks at: matchedPairs of the render that made
\* the handler, in bulk mode (line 228)
RunQueue == IF mode = "single" THEN <<>> ELSE matchedPairs

\* every pairing handed to processItem at once, none awaited
AllItemsStarted(n) == [i \in 1..n |-> "read"]

\* the first pairing is handed to processItem, which runs up to its first
\* await (line 202); the others wait for the loop (lines 230-233)
FirstItemStarted(n) == [i \in 1..n |-> IF i = 1 THEN "read" ELSE "waiting"]

\* the decode contexts after the first processItem has opened its own (line 201)
CtxAfter(itemPc) == [i \in DOMAIN itemPc |-> IF itemPc[i] = "waiting" THEN "none" ELSE "open"]

\* a slot that holds no call in progress
FreeSlots == {r \in RunSlots : ~Running(r)}

\* processTagger up to its first await, or to its end when it throws at
\* once (lines 194-244)
ProcessTagger ==
    /\ FreeSlots # {}
    /\ LET r == CHOOSE q \in FreeSlots : \A o \in FreeSlots : q <= o
       IN IF StartThrows
          THEN /\ runs' = [runs EXCEPT ![r] =
                              [NoRun EXCEPT !.pc = "aborted", !.mode = mode, !.errorSets = 1]]
               /\ error' = StartError
               /\ success' = FALSE
               /\ isProcessing' = FALSE
               /\ processStep' = ""
          ELSE /\ runs' = [runs EXCEPT ![r] =
                              [pc |-> "running",
                               mode |-> mode,
                               queue |-> RunQueue,
                               items |-> RunItems,
                               itemPc |-> FirstItemStarted(Len(RunItems)),
                               ctx |-> CtxAfter(FirstItemStarted(Len(RunItems))),
                               delivered |-> <<>>,
                               errorSets |-> 0]]
               /\ error' = NoError
               /\ success' = FALSE
               /\ isProcessing' = TRUE
               /\ processStep' = ExtractingStep
    /\ UNCHANGED <<mode, mediaFile, imageFile, fileVars, normVars, unitVars, matchVars, encVars>>

\* a click on the start button
StartClick == StartEnabled /\ ProcessTagger

\* media.arrayBuffer() resolves and decodeAudioData is called (lines 202-205)
ReadDone(r, i) ==
    /\ Running(r) /\ runs[r].itemPc[i] = "read"
    /\ runs' = [runs EXCEPT ![r].itemPc[i] = "decode"]
    /\ UNCHANGED <<uiVars, fileVars, normVars, unitVars, matchVars, encVars>>

\* decodeAudioData resolves; encodeMp3 starts and runs to its first yield
\* (lines 205-208, 88-90)
DecodeDone(r, i) ==
    /\ Running(r) /\ runs[r].itemPc[i] = "decode"
    /\ runs' = [runs EXCEPT ![r].itemPc[i] = "encode"]
    /\ processStep' = TranscodingStep
    /\ UNCHANGED <<mode, mediaFile, imageFile, isProcessing, error, success,
                   fileVars, normVars, unitVars, matchVars, encVars>>

\* encodeMp3 returns the blob; applyID3Tags starts and awaits the buffers
\* (lines 208-211, 105-106)
EncodeDone(r, i) ==
    /\ Running(r) /\ runs[r].itemPc[i] = "encode"
    /\ runs' = [runs EXCEPT ![r].itemPc[i] = "tag"]
    /\ processStep' = EmbeddingStep
    /\ UNCHANGED <<mode, mediaFile, imageFile, isProcessing, error, success,
                   fileVars, normVars, unitVars, matchVars, encVars>>

\* the loop ends one pairing early
TagDoneEndsEarly(r, i) ==
    /\ Running(r) /\ runs[r].itemPc[i] = "tag"
    /\ IF i + 1 < Len(runs[r].items)
       THEN /\ runs' = [runs EXCEPT ![r].itemPc[i] = "delivered",
                                    ![r].itemPc[i + 1] = "read",
                                    ![r].ctx[i] = "closed",
                                    ![r].ctx[i + 1] = "open",
                                    ![r].delivered = Append(@, i)]
            /\ processStep' = ExtractingStep
            /\ UNCHANGED <<success, isProcessing>>
       ELSE /\ runs' = [runs EXCEPT ![r].itemPc[i] = "delivered",
                                    ![r].ctx[i] = "closed",
                                    ![r].delivered = Append(@, i),
                                    ![r].pc = "completed"]
            /\ success' = TRUE
            /\ isProcessing' = FALSE
            /\ processStep' = ""
    /\ UNCHANGED <<mode, mediaFile, imageFile, error,
                   fileVars, normVars, unitVars, matchVars, encVars>>

\* applyID3Tags returns; the artifact is handed to the download link and the
\* context closed (lines 213-219).  The loop then hands the next pairing to
\* processItem, or the run ends with setSuccess(true) and the finally block
\* (lines 226, 230-234, 240-243).  imageFile.arrayBuffer() (line 105) throws
\* for an artwork that is no File
TagDone(r, i) ==
    /\ Running(r) /\ runs[r].itemPc[i] = "tag"
    /\ IsFile(runs[r].items[i].artwork)
    /\ IF i < Len(runs[r].items)
       THEN /\ runs' = [runs EXCEPT ![r].itemPc[i] = "delivered",
                                    ![r].itemPc[i + 1] = "read",
                                    ![r].ctx[i] = "closed",
                                    ![r].ctx[i + 1] = "open",
                                    ![r].delivered = Append(@, i)]
            /\ processStep' = ExtractingStep
            /\ UNCHANGED <<success, isProcessing>>
       ELSE /\ runs' = [runs EXCEPT ![r].itemPc[i] = "delivered",
                                    ![r].ctx[i] = "closed",
                                    ![r].delivered = Append(@, i),
                                    ![r].pc = "completed"]
            /\ success' = TRUE
            /\ isProcessing' = FALSE
            /\ processStep' = ""
    /\ UNCHANGED <<mode, mediaFile, imageFile, error,
                   fileVars, normVars, unitVars, matchVars, encVars>>

\* a failed pairing is passed over and the loop goes on with the next one
StageFailsContinue(r, i) ==
    /\ Running(r) /\ runs[r].itemPc[i] \in {"read", "decode", "encode", "tag"}
    /\ IF i < Len(runs[r].items)
       THEN /\ runs' = [runs EXCEPT ![r].itemPc[i] = "failed",
                                    ![r].itemPc[i + 1] = "read",
                                    ![r].ctx[i + 1] = "open",
                                    ![r].errorSets = @ + 1]
            /\ error' = StageError
            /\ processStep' = ExtractingStep
            /\ UNCHANGED isProcessing
       ELSE /\ runs' = [runs EXCEPT ![r].itemPc[i] = "failed",
                                    ![r].pc = "aborted",
                                    ![r].errorSets = @ + 1]
            /\ error' = StageError
            /\ isProcessing' = FALSE
            /\ processStep' = ""
    /\ UNCHANGED <<mode, mediaFile, imageFile, success,
                   fileVars, normVars, unitVars, matchVars, encVars>>

\* the catch block without the finally block
StageFailsNoFinally(r, i) ==
    /\ Running(r) /\ runs[r].itemPc[i] \in {"read", "decode", "encode", "tag"}
    /\ runs' = [runs EXCEPT ![r].itemPc[i] = "failed",
                            ![r].pc = "aborted",
                            ![r].errorSets = @ + 1]
    /\ error' = StageError
    /\ UNCHANGED <<mode, mediaFile, imageFile, success, isProcessing, processStep,
                   fileVars, normVars, unitVars, matchVars, encVars>>

\* a stage of processItem rejects or throws: the catch and finally blocks of
\* processTagger run (lines 236-243); the context is left as it is
StageFails(r, i) ==
    /\ Running(r) /\ runs[r].itemPc[i] \in {"read", "decode", "encode", "tag"}
    /\ runs' = [runs EXCEPT ![r].itemPc[i] = "failed",
                            ![r].pc = "aborted",
                            ![r].errorSets = @ + 1]
    /\ error' = StageError
    /\ isProcessing' = FALSE
    /\ processStep' = ""
    /\ UNCHANGED <<mode, mediaFile, imageFile, success,
                   fileVars, normVars, unitVars, matchVars, encVars>>

Init ==
    /\ UiInit /\ FilesInit /\ RunsIdle
    /\ NormIdle /\ UnitIdle /\ MatchIdle /\ EncIdle

Next ==
    \/ \E f \in PickedFiles : HandleMediaChange(f)
    \/ \E f \in PickedFiles : HandleImageChange(f)
    \/ \E b \in Batches : AddFilesToBulk(b)
    \/ \E k \in DOMAIN matchedPairs : RemoveFromQueue(matchedPairs[k])
    \/ \E m \in {"single", "bulk"} : SetMode(m)
    \/ ResetEngine
    \/ StartClick
    \/ \E r \in RunSlots : \E i \in DOMAIN runs[r].itemPc : ReadDone(r, i)
    \/ \E r \in RunSlots : \E i \in DOMAIN runs[r].itemPc : DecodeDone(r, i)
    \/ \E r \in RunSlots : \E i \in DOMAIN runs[r].itemPc : EncodeDone(r, i)
    \/ \E r \in RunSlots : \E i \in DOMAIN runs[r].itemPc : TagDone(r, i)
    \/ \E r \in RunSlots : \E i \in DOMAIN runs[r].itemPc : StageFails(r, i)

Spec == Init /\ [][Next]_vars

----------------------------------------------------------------------------
(* The runs of processTagger *)

Stages == {"read", "decode", "encode", "tag"}

\* the pairings of a run that are being processed
InProgress(r) == {i \in DOMAIN runs[r].itemPc : runs[r].itemPc[i] \in Stages}

\* the pairings of a run that processItem was called for
Started(r) == {i \in DOMAIN runs[r].itemPc : runs[r].itemPc[i] # "waiting"}

UpTo(n) == [i \in 1..n |-> i]

\* C1: the pairings of a run are processed in queue order and one at a time:
\* no stage of pairing N+1 begins before the artifact of pairing N has been
\* handed to the output sink, and no two pairings are in progress at once.
C1_SequentialInOrder ==
    \A r \in RunSlots :
        /\ Cardinality(InProgress(r)) <= 1
        /\ \A i \in DOMAIN runs[r].itemPc :
               i > 1 /\ i \in Started(r) =>
                   /\ runs[r].itemPc[i - 1] = "delivered"
                   /\ \E d \in DOMAIN runs[r].delivered : runs[r].delivered[d] = i - 1
        /\ \A d, e \in DOMAIN runs[r].delivered :
               d < e => runs[r].delivered[d] < runs[r].delivered[e]
        /\ \A i, j \in DOMAIN runs[r].items :
               i < j => runs[r].items[i].id[2] < runs[r].items[j].id[2]

\* a batch run of three pairings with the third in progress, the first two
\* delivered in that order
C1_Witness ==
    \E r \in RunSlots :
        /\ Running(r)
        /\ runs[r].mode = "bulk"
        /\ Len(runs[r].items) = 3
        /\ runs[r].itemPc[3] = "encode"
        /\ runs[r].delivered = <<1, 2>>

\* a run in which the stage of a pairing has failed: it is aborted, the
\* pairings before are delivered and those after never started
AbortedAt(r, k) ==
    /\ runs[r].pc = "aborted"
    /\ runs[r].errorSets = 1
    /\ \A j \in DOMAIN runs[r].itemPc :
        /\ j < k => runs[r].itemPc[j] = "delivered"
        /\ j > k => runs[r].itemPc[j] = "waiting"
    /\ runs[r].delivered = UpTo(k - 1)

\* processTagger is called anew in slot r
StartsAnew(r) ==
    /\ runs'[r].pc = "running"
    /\ runs'[r].delivered = <<>>
    /\ runs'[r].errorSets = 0
    /\ success' = FALSE
    /\ error' = NoError

\* C2: when a stage fails for the k-th pairing of a run, the run is aborted
\* in the same step with the error set, once, and success not set; the
\* pairings 1..k-1 stay delivered, and no pairing after k is started for as
\* long as the run is there.
C2_AbortOnFirstFailure ==
    /\ [](\A r \in RunSlots : \A k \in DOMAIN runs[r].itemPc :
            runs[r].itemPc[k] = "failed" => AbortedAt(r, k))
    /\ [][\A r \in RunSlots : \A k \in DOMAIN runs[r].itemPc :
            /\ (k \in DOMAIN runs'[r].itemPc
                /\ runs[r].itemPc[k] # "failed" /\ runs'[r].itemPc[k] = "failed")
               => /\ error' = StageError
                  /\ success' = FALSE
                  /\ isProcessing' = FALSE
                  /\ runs'[r].pc = "aborted"
            /\ (runs[r].pc = "aborted" /\ runs'[r] # runs[r]) => StartsAnew(r)]_vars

\* a batch run of three pairings aborted by a failure of the second (Scenario C)
C2_Witness ==
    \E r \in RunSlots :
        /\ runs[r].mode = "bulk"
        /\ runs[r].itemPc = <<"delivered", "failed", "waiting">>
        /\ runs[r].pc = "aborted"
        /\ runs[r].delivered = <<1>>
        /\ error = StageError
        /\ ~success

\* the pairings of the list a run looked at that have the given status
WithStatus(r, status) ==
    {k \in DOMAIN runs[r].queue : runs[r].queue[k].status = status}

\* C3: a batch run processes the matched pairings of the queue and no other:
\* a missing-image pairing is never handed to processItem, and a run only
\* aborts on the failure of a stage of a matched pairing.
C3_OnlyMatchedProcessed ==
    \A r \in RunSlots :
        runs[r].mode = "bulk" /\ runs[r].pc # "none" =>
            /\ \A i \in DOMAIN runs[r].items :
                   \E k \in WithStatus(r, "matched") :
                       /\ runs[r].items[i].id = runs[r].queue[k].id
                       /\ runs[r].items[i].media = runs[r].queue[k].audio
                       /\ runs[r].items[i].artwork = runs[r].queue[k].image
            /\ \A k \in WithStatus(r, "missing-image") :
                   \A i \in DOMAIN runs[r].items :
                       runs[r].items[i].id # runs[r].queue[k].id
            /\ runs[r].pc = "aborted" =>
                   \E i \in DOMAIN runs[r].itemPc : runs[r].itemPc[i] = "failed"

\* a batch run over a queue with a missing-image pairing between two matched
\* ones has completed
C3_Witness ==
    \E r \in RunSlots :
        /\ runs[r].mode = "bulk"
        /\ runs[r].pc = "completed"
        /\ Len(runs[r].queue) = 3
        /\ runs[r].queue[2].status = "missing-image"
        /\ Len(runs[r].items) = 2
        /\ error = NoError

\* C4: a run is completed, and success set, only when every pairing to
\* process has been handed to the output sink exactly once: the deliveries
\* are those of the matched pairings (of the one pairing in single mode),
\* none twice and none left out.
C4_CompletedMeansAllDelivered ==
    /\ \A r \in RunSlots :
        runs[r].pc = "completed" =>
            /\ runs[r].delivered = UpTo(Len(runs[r].items))
            /\ \A i \in DOMAIN runs[r].itemPc : runs[r].itemPc[i] = "delivered"
            /\ Len(runs[r].delivered) =
                   IF runs[r].mode = "single" THEN 1
                   ELSE Cardinality(WithStatus(r, "matched"))
    /\ success => \E r \in RunSlots : runs[r].pc = "completed"

\* a batch run of three pairings has completed with success set
C4_Witness ==
    \E r \in RunSlots :
        /\ runs[r].pc = "completed"
        /\ runs[r].mode = "bulk"
        /\ runs[r].delivered = <<1, 2, 3>>
        /\ success

\* C5: at most one run is active at any time, and isProcessing is set while
\* one is.
C5_AtMostOneRun ==
    /\ Cardinality({r \in RunSlots : Running(r)}) <= 1
    /\ isProcessing <=> \E r \in RunSlots : Running(r)

\* a batch run is active while the single mode is shown with both files
\* selected, so that only isProcessing disables the start button
C5_Witness ==
    \E r \in RunSlots :
        /\ Running(r)
        /\ runs[r].mode = "bulk"
        /\ mode = "single"
        /\ mediaFile # null /\ imageFile # null
        /\ StartEnabledUnguarded
        /\ ~StartEnabled

----------------------------------------------------------------------------
(* clampToInt16 (lines 66-69) and the store into the Int16Array (lines 79-80) *)

\* samples are the numbers num / SampleDen with |num| <= MaxSampleNum, and
\* the values NaN, Infinity and -Infinity a Float32Array can hold
SampleDen == 64
MaxSampleNum == 160

Num(n) == [kind |-> "num", num |-> n]
NaN == [kind |-> "NaN", num |-> 0]
PlusInfinity == [kind |-> "Infinity", num |-> 1]
MinusInfinity == [kind |-> "Infinity", num |-> -1]

Samples ==
    {Num(n) : n \in -MaxSampleNum..MaxSampleNum} \cup {NaN, PlusInfinity, MinusInfinity}

\* Math.min(a, b) and Math.max(a, b) for a finite a: NaN if b is NaN
MathMin(a, b) ==
    CASE b.kind = "NaN" -> NaN
      [] b.kind = "Infinity" -> IF b.num > 0 THEN a ELSE b
      [] OTHER -> IF b.num < a.num THEN b ELSE a

MathMax(a, b) ==
    CASE b.kind = "NaN" -> NaN
      [] b.kind = "Infinity" -> IF b.num > 0 THEN b ELSE a
      [] OTHER -> IF b.num > a.num THEN b ELSE a

\* value < 0 (false for NaN)
LessThanZero(v) == v.kind # "NaN" /\ v.num < 0

\* value * k
Times(v, k) == IF v.kind = "num" THEN Num(v.num * k) ELSE v

\* the sample scaled as it is, not clamped
clampToInt16Unclamped(value) ==
    IF LessThanZero(value) THEN Times(value, 32768) ELSE Times(value, 32767)

\* clampToInt16 (lines 66-69)
clampToInt16(value) ==
    LET clamped == MathMax(Num(-SampleDen), MathMin(Num(SampleDen), value))
    IN IF LessThanZero(clamped) THEN Times(clamped, 32768) ELSE Times(clamped, 32767)

\* the integer part of num / SampleDen, rounded towards zero
Truncate(num) == IF num >= 0 THEN num \div SampleDen ELSE -((-num) \div SampleDen)

\* the conversion of an Int16Array store: NaN and the infinities give 0, a
\* number is truncated and taken modulo 2^16 into -32768..32767
ToInt16(v) ==
    IF v.kind # "num" THEN 0
    ELSE LET int16bit == Truncate(v.num) % 65536
         IN IF int16bit >= 32768 THEN int16bit - 65536 ELSE int16bit

\* clampToInt16(left[i + j]) is computed
Quantize ==
    /\ qPc = "sample"
    /\ qValue' = clampToInt16(qSample)
    /\ qPc' = "scaled"
    /\ UNCHANGED <<qSample, qStored, lName, lDownload,
                   normVars, fileVars, uiVars, matchVars, encVars, runs>>

\* leftChunk[j] = ... (line 79)
StoreInt16 ==
    /\ qPc = "scaled"
    /\ qStored' = ToInt16(qValue)
    /\ qPc' = "stored"
    /\ UNCHANGED <<qSample, qValue, lName, lDownload,
                   normVars, fileVars, uiVars, matchVars, encVars, runs>>

InitQuantize ==
    /\ qSample \in Samples
    /\ qPc = "sample"
    /\ qValue = Num(0)
    /\ qStored = 0
    /\ lName = <<>> /\ lDownload = NoKey
    /\ UiInit /\ FilesInit /\ MatchIdle /\ NormIdle /\ EncIdle /\ RunsIdle

NextQuantize == Quantize \/ StoreInt16

SpecQuantize == InitQuantize /\ [][NextQuantize]_vars

\* sample < x / 1 and sample > x / 1, the infinities included
Below(v, x) ==
    \/ v.kind = "num" /\ v.num < x * SampleDen
    \/ v.kind = "Infinity" /\ v.num < 0

Above(v, x) ==
    \/ v.kind = "num" /\ v.num > x * SampleDen
    \/ v.kind = "Infinity" /\ v.num > 0

\* C11: -1.0 is stored as -32768 and 1.0 as 32767, every sample below -1 as
\* -32768 and every sample above 1 as 32767; a sample in between is stored
\* as its product with 32768 (negative) or 32767 (non-negative), truncated;
\* every stored value is the truncated scaled value itself, in
\* -32768..32767, none wrapped around.
C11_Quantization ==
    qPc = "stored" =>
        /\ qStored \in -32768..32767
        /\ qSample = Num(-SampleDen) => qStored = -32768
        /\ qSample = Num(SampleDen) => qStored = 32767
        /\ Below(qSample, -1) => qStored = -32768
        /\ Above(qSample, 1) => qStored = 32767
        /\ (qSample.kind = "num" /\ ~Below(qSample, -1) /\ ~Above(qSample, 1)) =>
               qStored = Truncate(qSample.num * (IF qSample.num < 0 THEN 32768 ELSE 32767))
        /\ qValue.kind = "num" => qStored = Truncate(qValue.num)

\* a sample of 2.0 has been clamped, scaled and stored
C11_Witness ==
    /\ qPc = "stored"
    /\ qSample = Num(2 * SampleDen)
    /\ qStored = 32767

----------------------------------------------------------------------------
(* Input acceptance *)

\* the checks as the claim words them: the content type starts with the
\* prefix, or the name ends, in any letter case, with '.' and an extension
TypeStartsWith(f, prefix) ==
    /\ Len(Type(f)) >= Len(prefix)
    /\ SubSeq(Type(f), 1, Len(prefix)) = prefix

NameEndsWithOneOf(f, exts) ==
    \E e \in exts :
        LET n == toLowerCase(Name(f))
        IN /\ Len(n) >= Len(e) + 1
           /\ SubSeq(n, Len(n) - Len(e), Len(n)) = <<".">> \o e

AcceptedAsMedia(f) ==
    \/ TypeStartsWith(f, <<"a","u","d","i","o","/">>)
    \/ TypeStartsWith(f, <<"v","i","d","e","o","/">>)
    \/ NameEndsWithOneOf(f, {<<"m","p","3">>, <<"m","p","4">>, <<"m","o","v">>,
                             <<"w","a","v">>, <<"m","4","a">>, <<"w","e","b","m">>,
                             <<"a","a","c">>})

AcceptedAsArtwork(f) ==
    \/ TypeStartsWith(f, <<"i","m","a","g","e","/">>)
    \/ NameEndsWithOneOf(f, {<<"j","p","g">>, <<"j","p","e","g">>, <<"p","n","g">>,
                             <<"w","e","b","p">>})

ValidationMessages == {MediaError}

\* C13: an item is taken as media, or as artwork, exactly when it passes
\* the check of its kind; a submitted item that fails the check of its
\* picker, or both checks in a bulk add, leaves the selection and the queues
\* without it, and the step shows a validation message.
C13_InputAcceptance ==
    [][/\ \A f \in PickedFiles :
            /\ (HandleMediaChange(f) /\ AcceptedAsMedia(f)) => mediaFile' = f
            /\ (HandleMediaChange(f) /\ ~AcceptedAsMedia(f)) =>
                   mediaFile' = mediaFile /\ error' \in ValidationMessages
            /\ (HandleImageChange(f) /\ AcceptedAsArtwork(f)) => imageFile' = f
            /\ (HandleImageChange(f) /\ ~AcceptedAsArtwork(f)) =>
                   imageFile' = imageFile /\ error' \in ValidationMessages
       /\ \A b \in Batches :
            AddFilesToBulk(b) =>
                /\ bulkAudioFiles' = bulkAudioFiles \o SelectSeq(b, AcceptedAsMedia)
                /\ bulkImageFiles' = bulkImageFiles \o SelectSeq(b, AcceptedAsArtwork)
                /\ (\E i \in DOMAIN b : ~AcceptedAsMedia(b[i]) /\ ~AcceptedAsArtwork(b[i]))
                       => error' \in ValidationMessages
      ]_vars

----------------------------------------------------------------------------
(* processTagger called in any state of the component *)

\* processTagger is called whatever the component holds: the function
\* itself asks for nothing but what lines 224 and 229 test
InitStart ==
    /\ mode \in {"single", "bulk"}
    /\ mediaFile \in {null, ClipMp4}
    /\ imageFile \in {null, XPng}
    /\ bulkAudioFiles \in SeqsUpTo({XMp3, YWav}, MaxList)
    /\ bulkImageFiles \in {<<>>, <<XPng>>}
    /\ manualAssignments = <<>>
    /\ isProcessing = FALSE
    /\ processStep = ""
    /\ error = NoError
    /\ success = FALSE
    /\ RunsIdle /\ NormIdle /\ UnitIdle /\ MatchIdle /\ EncIdle

NextStart ==
    \/ ProcessTagger
    \/ \E r \in RunSlots : \E i \in DOMAIN runs[r].itemPc : ReadDone(r, i)
    \/ \E r \in RunSlots : \E i \in DOMAIN runs[r].itemPc : DecodeDone(r, i)
    \/ \E r \in RunSlots : \E i \in DOMAIN runs[r].itemPc : EncodeDone(r, i)
    \/ \E r \in RunSlots : \E i \in DOMAIN runs[r].itemPc : TagDone(r, i)
    \/ \E r \in RunSlots : \E i \in DOMAIN runs[r].itemPc : StageFails(r, i)

SpecStart == InitStart /\ [][NextStart]_vars

\* a required item is missing: media or artwork in single mode, a matched
\* pairing in bulk mode
RequiredItemMissing ==
    IF mode = "single"
    THEN mediaFile = null \/ imageFile = null
    ELSE \A k \in DOMAIN matchedPairs : matchedPairs[k].status # "matched"

\* C14: a call of processTagger while a required item is missing starts no
\* stage and delivers nothing; it ends at once with a validation error set,
\* success not set and nothing in progress.
C14_MissingItemBlocksStart ==
    RequiredItemMissing =>
        /\ ~success
        /\ ~isProcessing
        /\ processStep = ""
        /\ \A r \in RunSlots :
            /\ runs[r].pc \in {"none", "aborted"}
            /\ runs[r].items = <<>>
            /\ runs[r].delivered = <<>>
            /\ runs[r].pc = "aborted" =>
                   /\ runs[r].errorSets = 1
                   /\ error = (IF mode = "single" THEN BothError ELSE NoTracksError)

\* processTagger was called in bulk mode with a queue of one missing-image
\* pairing
C14_Witness ==
    /\ mode = "bulk"
    /\ bulkAudioFiles = <<YWav>>
    /\ RequiredItemMissing
    /\ runs[1].pc = "aborted"
    /\ error = NoTracksError

----------------------------------------------------------------------------
(* Runs come to an end *)

\* the pending await of a run is settled: it resolves or it rejects
Settle ==
    \E r \in RunSlots : \E i \in DOMAIN runs[r].itemPc :
        \/ ReadDone(r, i) \/ DecodeDone(r, i) \/ EncodeDone(r, i)
        \/ TagDone(r, i) \/ StageFails(r, i)

\* every await of a run is settled in the end: the browser settles
\* arrayBuffer(), decodeAudioData() and the timeout of encodeMp3
SpecFair == Spec /\ WF_vars(Settle)

Terminal(r) == runs[r].pc \in {"completed", "aborted"}

\* C16: every run that starts comes to an end, completed with success set
\* or aborted with the error set, and the end clears isProcessing and the
\* progress label, so that a run can be started again.
C16_RunsTerminate ==
    /\ (\E r \in RunSlots : Running(r))
           ~> (/\ \A r \in RunSlots : runs[r].pc # "none" => Terminal(r)
               /\ ~isProcessing /\ processStep = "")
    /\ [][\A r \in RunSlots :
            (Running(r) /\ ~Running(r)') =>
                /\ runs'[r].pc \in {"completed", "aborted"}
                /\ runs'[r].pc = "completed" => success'
                /\ runs'[r].pc = "aborted" => error' # NoError /\ ~success'
                /\ ~isProcessing'
                /\ processStep' = ""
                /\ StartEnabledUnguarded' => StartEnabled']_vars

\* a run in single mode has completed: success is set, nothing is in
\* progress and the start button is enabled again
C16_Witness ==
    \E r \in RunSlots :
        /\ runs[r].pc = "completed"
        /\ runs[r].mode = "single"
        /\ mode = "single"
        /\ success /\ ~isProcessing /\ processStep = ""
        /\ StartEnabled

----------------------------------------------------------------------------
(* Queue editing *)

\* C18: adding files appends the accepted media items to the audio list and
\* the accepted artwork items to the artwork list, the entries there before
\* kept as they are; removing a queue entry deletes the audio items of its
\* name, all of them, keeps the others in their order and leaves the artwork
\* list and the override map alone.
C18_QueueEditing ==
    [][/\ \A b \in Batches :
            AddFilesToBulk(b) =>
                /\ bulkAudioFiles' = bulkAudioFiles \o SelectSeq(b, AcceptedAsMedia)
                /\ bulkImageFiles' = bulkImageFiles \o SelectSeq(b, AcceptedAsArtwork)
                /\ manualAssignments' = manualAssignments
       /\ \A k \in DOMAIN matchedPairs :
            RemoveFromQueue(matchedPairs[k]) =>
                /\ bulkAudioFiles' =
                       SelectSeq(bulkAudioFiles,
                                 LAMBDA f : Name(f) # Name(bulkAudioFiles[k]))
                /\ bulkImageFiles' = bulkImageFiles
                /\ manualAssignments' = manualAssignments
      ]_vars

\* the queue after x.mp3 was added twice, with y.wav in between, and then
\* removed: both entries are gone, the two artworks are still there
C18_Witness ==
    /\ bulkAudioFiles = <<YWav>>
    /\ bulkImageFiles = <<XPng, XPng>>

----------------------------------------------------------------------------
(* The name of the delivered artifact (line 216) *)

\* name.split('.')[0]: the text before the first '.', the whole name if it
\* has none
FirstSplit(name) ==
    IF \E p \in DOMAIN name : name[p] = "."
    THEN SubSeq(name, 1, (CHOOSE p \in DOMAIN name :
                             name[p] = "." /\ \A q \in DOMAIN name : name[q] = "." => p <= q) - 1)
    ELSE name

CoverFlowSuffix == <<"_","C","o","v","e","r","F","l","o","w",".","m","p","3">>

\* `${media.name.split('.')[0]}_CoverFlow.mp3`
DownloadName(name) == FirstSplit(name) \o CoverFlowSuffix

\* link.download is set for a media item of the name
SetDownload ==
    /\ lDownload = NoKey
    /\ lDownload' = DownloadName(lName)
    /\ UNCHANGED <<lName, qSample, qPc, qValue, qStored,
                   normVars, fileVars, uiVars, matchVars, encVars, runs>>

InitDownload ==
    /\ lName \in Names
    /\ lDownload = NoKey
    /\ qSample = Num(0) /\ qPc = "idle" /\ qValue = Num(0) /\ qStored = 0
    /\ UiInit /\ FilesInit /\ MatchIdle /\ NormIdle /\ EncIdle /\ RunsIdle

NextDownload == SetDownload

SpecDownload == InitDownload /\ [][NextDownload]_vars

\* C19: the artifact of a media item is named with the item's display name
\* without its final extension, followed by "_CoverFlow" and ".mp3", also
\* for a name with more than one '.' and for a name with none.
C19_DownloadName ==
    lDownload # NoKey =>
        lDownload = BaseName(lName) \o <<"_","C","o","v","e","r","F","l","o","w">>
                                    \o <<".","m","p","3">>

----------------------------------------------------------------------------
(* Decode contexts *)

\* the pairings of a run whose decode context is open
OpenContexts(r) == {i \in DOMAIN runs[r].ctx : runs[r].ctx[i] = "open"}

\* C20: each pairing a run starts opens a decode context of its own, at most
\* one context is open at any moment, and none is open once the run has
\* ended, completed or aborted.
C20_ContextsClosed ==
    \A r \in RunSlots :
        /\ \A i \in DOMAIN runs[r].ctx :
               runs[r].ctx[i] # "none" <=> runs[r].itemPc[i] # "waiting"
        /\ Cardinality(OpenContexts(r)) <= 1
        /\ Terminal(r) => OpenContexts(r) = {}

----------------------------------------------------------------------------
(* Run isolation *)

\* the matched pairings of the list a run looked at, as items, in list order
MatchedOfQueue(r) ==
    LET matched == SelectSeq(runs[r].queue, LAMBDA q : q.status = "matched")
    IN [i \in DOMAIN matched |->
           [media |-> matched[i].audio, artwork |-> matched[i].image, id |-> matched[i].id]]

\* C21: the pairings a batch run processes, their order and the run's mode
\* are those of the moment the run starts; additions, removals, mode
\* switches and rejected inputs while the run is suspended add, drop or
\* reorder none of them and do not abort the run: only a failed stage of one
\* of its pairings does.
C21_RunIsolation ==
    /\ [](\A r \in RunSlots :
            (runs[r].mode = "bulk" /\ runs[r].pc \in {"running", "completed"}) =>
                /\ runs[r].items = MatchedOfQueue(r)
                /\ Len(runs[r].itemPc) = Len(runs[r].items))
    /\ [][\A r \in RunSlots :
            /\ (~Running(r) /\ Running(r)') =>
                   /\ runs'[r].mode = mode
                   /\ mode = "bulk" => runs'[r].queue = matchedPairs
            /\ Running(r) =>
                   /\ runs'[r].items = runs[r].items
                   /\ runs'[r].queue = runs[r].queue
                   /\ runs'[r].mode = runs[r].mode
                   /\ runs'[r].pc = "aborted" =>
                          \E i \in DOMAIN runs[r].itemPc :
                              runs[r].itemPc[i] \in Stages /\ runs'[r].itemPc[i] = "failed"
                   /\ (\/ fileVars' # fileVars \/ mode' # mode
                       \/ mediaFile' # mediaFile \/ imageFile' # imageFile
                       \/ error' # error /\ error' = MediaError)
                          => runs'[r] = runs[r] /\ isProcessing'
         ]_vars

\* a batch run of two pairings is at its second one while the queue has
\* lost an entry, the mode is single and a rejected file has left its message
C21_Witness ==
    \E r \in RunSlots :
        /\ Running(r)
        /\ runs[r].mode = "bulk"
        /\ Len(runs[r].items) = 2
        /\ runs[r].itemPc[2] \in Stages
        /\ Len(bulkAudioFiles) < Len(runs[r].queue)
        /\ mode = "single"
        /\ error = MediaError

----------------------------------------------------------------------------
(* Outcome flags *)

\* C22: success and an error message are never set together, and success is
\* never set while a run is active.
C22_OutcomeExclusive ==
    /\ ~(success /\ error # NoError)
    /\ success => \A r \in RunSlots : ~Running(r)

====
